---- MODULE Spec2Model ----
(***************************************************************************)
(* Model of mlx/backend/metal/scaled_dot_product_attention.cpp: the Metal  *)
(* dispatch layer of fast::ScaledDotProductAttention.  One call of         *)
(* eval_gpu is modelled as the sequence of its statements: the three       *)
(* layout normalisations of Q, K, V, the planning of the output storage,   *)
(* the mask, the dispatch (sdpa_vector, sdpa_vector_2pass or               *)
(* sdpa_full_self_attention_metal) and the final add_temporaries.          *)
(* Everything the code asks of the device, the encoder and the allocator   *)
(* is appended to `log`, in program order; a launch is recorded with the   *)
(* arrays, constants and dimensions set on the encoder for it.             *)
(***************************************************************************)
EXTENDS Integers, Sequences, FiniteSets, TLC

VARIABLES
  pc,        \* position inside eval_gpu
  inputs,    \* the call: q_pre, k_pre, v_pre, the optional mask, arch, causal
  copies,    \* std::vector<array> copies (line 340)
  cap,       \* copies.capacity()
  gen,       \* identity of the storage block copies currently lives in
  qh, kh, vh,\* the `const array&` returned by copy_unless for q, k, v
  o,         \* the output array
  mask,      \* std::optional<array> mask handed to the dispatch function
  path,      \* which dispatch function eval_gpu called
  log,       \* device / encoder / allocator calls, in program order
  prevFetch  \* the specialised kernel fetch of the previous call (device side)

vars == <<pc, inputs, copies, cap, gen, qh, kh, vh, o, mask, path, log, prevFetch>>

(***************************************************************************)
(* Program constants.                                                      *)
(***************************************************************************)
VectorMaxQ == 8
TwoPassLargeMinK == 1024
TwoPassGqaMinK == 4096
wm == 4
wn == 1
bq == 32
BkSmallD == 32
BkLargeD == 16
BkSwitchD == 128
FullSimd == 32
VectorGroup == 1024
Pass1Simds == 8
Pass1Width == 32
FinalGroup == 1024
blocks == 32
ReserveN == 3

(***************************************************************************)
(* Bounds of the model.                                                    *)
(***************************************************************************)
ExtraQ == 1      \* query lengths above VectorMaxQ that are tried
SlackK == 1      \* key lengths tried on each side of a two-pass threshold
MaxL == 50       \* longest sequence handed directly to the tiled path

(***************************************************************************)
(* Tensors.  A tensor handle is its buffer, dtype, shape, strides, the     *)
(* row_contiguous flag and whether it is donatable; all are 4-d.           *)
(***************************************************************************)
RowStrides(shape) ==
  <<shape[2] * shape[3] * shape[4], shape[3] * shape[4], shape[4], 1>>

\* Strides of the layouts the callers produce: row-major, heads and sequence
\* transposed (a [B,L,H,D] buffer viewed as [B,H,L,D]), and a view that takes
\* every second element of the innermost axis.
LayoutStrides(shape, layout) ==
  CASE layout = "row" -> RowStrides(shape)
    [] layout = "hst" ->
         <<shape[3] * shape[2] * shape[4], shape[4], shape[2] * shape[4], 1>>
    [] layout = "strided" ->
         <<2 * shape[2] * shape[3] * shape[4], 2 * shape[3] * shape[4],
           2 * shape[4], 2>>

\* An axis of extent 1 does not count against row contiguity.
RowContiguous(shape, strides) ==
  \A i \in 1 .. Len(shape) :
    shape[i] > 1 => strides[i] = RowStrides(shape)[i]

Tensor(buf, dtype, shape, layout, don) ==
  [buf |-> buf, dtype |-> dtype, shape |-> shape,
   strides |-> LayoutStrides(shape, layout),
   rc |-> RowContiguous(shape, LayoutStrides(shape, layout)),
   don |-> don]

Size(arr) == arr.shape[1] * arr.shape[2] * arr.shape[3] * arr.shape[4]

NoArray == [buf |-> "none", dtype |-> "none", shape |-> <<0, 0, 0, 0>>,
            strides |-> <<0, 0, 0, 0>>, rc |-> FALSE, don |-> FALSE]

\* What a read through a dangling reference may yield besides the old value.
Garbage == [buf |-> "garbage", dtype |-> "float32", shape |-> <<1, 1, 1, 3>>,
            strides |-> <<21, 14, 7, 5>>, rc |-> FALSE, don |-> FALSE]

(***************************************************************************)
(* The calls.  inputs[0..2] are q, k, v; inputs[3], when present, is the   *)
(* mask, broadcastable over [B,H,Lq,Lk].  arch is d.get_architecture() as  *)
(* a sequence of characters, causal is do_causal_.                         *)
(***************************************************************************)
MaskShape(mkind, h, lq, lk) ==
  CASE mkind = "full" -> <<1, h, lq, lk>>
    [] mkind = "keys" -> <<1, 1, 1, lk>>
    [] mkind = "rows" -> <<1, 1, lq, lk>>
    [] mkind = "heads" -> <<1, h, 1, 1>>
    [] mkind = "none" -> <<0, 0, 0, 0>>

Call(dt, hh, lq, lk, d, dv, ql, kl, vl, mkind, mdt, ml, qdon, arch, causal) ==
  [q |-> Tensor("q", dt, <<1, hh[1], lq, d>>, ql, qdon),
   k |-> Tensor("k", dt, <<1, hh[2], lk, d>>, kl, FALSE),
   v |-> Tensor("v", dt, <<1, hh[2], lk, dv>>, vl, FALSE),
   has_mask |-> mkind # "none",
   m |-> IF mkind # "none"
         THEN Tensor("m", mdt, MaskShape(mkind, hh[1], lq, lk), ml, FALSE)
         ELSE NoArray,
   out_shape |-> <<1, hh[1], lq, dv>>,
   arch |-> arch, causal |-> causal]

LargeArch == <<"g", "1", "3", "d">>
SmallArch == <<"g", "1", "3", "g">>

(***************************************************************************)
(* eval_gpu's helpers (lines 340-372).                                     *)
(***************************************************************************)
is_contiguous_or_head_seq_transposed(arr) ==
  \/ arr.rc
  \/ /\ arr.strides[4] = 1
     /\ arr.strides[3] = arr.shape[4] * arr.shape[2]
     /\ arr.strides[2] = arr.shape[4]
     /\ arr.strides[1] = arr.strides[3] * arr.shape[3]

\* The head-dim check accepting any positive innermost stride.
is_matrix_contiguous_loose(arr) == arr.strides[4] >= 1

is_matrix_contiguous(arr) == arr.strides[4] = 1

\* array arr_copy(arr.shape(), arr.dtype(), nullptr, {}) filled by copy_gpu
\* with CopyType::General: a fresh row-major buffer.
\* Whether the copy is donatable is its reference counts, the array library's.
ArrCopy(arr, n, don) ==
  [buf |-> "copy" \o ToString(n), dtype |-> arr.dtype, shape |-> arr.shape,
   strides |-> RowStrides(arr.shape), rc |-> TRUE, don |-> don]

InputRef == [kind |-> "input", gen |-> 0, idx |-> 0]

CopyRef(g, i) == [kind |-> "copy", gen |-> g, idx |-> i]

\* copy_unless(predicate, arr): `holds` is predicate(arr), `ref` the reference
\* returned.  push_back on a full vector moves the elements to a new block.
copy_unless(holds, arr, ref) ==
  IF ~holds
  THEN /\ log' = Append(log, [op |-> "copy_gpu", src |-> arr.buf,
                              dst |-> "copy" \o ToString(Len(copies) + 1)])
       /\ \E don \in BOOLEAN :
            copies' = Append(copies, ArrCopy(arr, Len(copies) + 1, don))
       /\ cap' = IF Len(copies) < cap THEN cap ELSE 2 * cap
       /\ gen' = IF Len(copies) < cap THEN gen ELSE gen + 1
       /\ ref = CopyRef(gen', Len(copies) + 1)
  ELSE /\ UNCHANGED <<log, copies, cap, gen>>
       /\ ref = InputRef

\* A reference is live while the block it points into is the vector's block.
Live(ref) == ref.kind = "input" \/ ref.gen = gen

\* The array a live reference denotes.
Deref(ref, pre) == IF ref.kind = "input" THEN pre ELSE copies[ref.idx]

\* What reading through the reference can yield: the array when the reference
\* is live; through a dangling reference the old bytes or anything else.
Reads(ref, pre) ==
  IF Live(ref) THEN {Deref(ref, pre)} ELSE {Deref(ref, pre), Garbage}

(***************************************************************************)
(* Names of element types, as the two helpers this file calls print them.  *)
(***************************************************************************)
type_to_name(arr) ==
  CASE arr.dtype = "float16" -> "float16"
    [] arr.dtype = "bfloat16" -> "bfloat16"
    [] arr.dtype = "float32" -> "float32"
    [] arr.dtype = "bool" -> "bool_"

get_type_string(dtype) ==
  CASE dtype = "float16" -> "float16_t"
    [] dtype = "bfloat16" -> "bfloat16_t"
    [] dtype = "float32" -> "float"
    [] dtype = "bool" -> "bool"

tn(b) == IF b THEN "t" ELSE "n"

(***************************************************************************)
(* sdpa_full_self_attention_metal (lines 16-131).                          *)
(***************************************************************************)
bk(bd) == IF bd < BkSwitchD THEN BkSmallD ELSE BkLargeD

align_Q(q) == (q.shape[3] % bq) = 0

align_K(q, k) == (k.shape[3] % bk(q.shape[4])) = 0

full_func_consts(q, k, m, do_causal) ==
  << <<200, align_Q(q)>>, <<201, align_K(q, k)>>,
     <<300, m.present>>, <<301, do_causal>> >>

full_base_name(q, m) ==
  "steel_attention_" \o type_to_name(q)
    \o "_bq" \o ToString(bq)
    \o "_bk" \o ToString(bk(q.shape[4]))
    \o "_bd" \o ToString(q.shape[4])
    \o "_wm" \o ToString(wm)
    \o "_wn" \o ToString(wn)
    \o "_mask" \o type_to_name(IF m.present THEN m.arr ELSE q)

\* The cache key without its last suffix.
full_hash_name_nocausal(q, k, m, do_causal) ==
  full_base_name(q, m)
    \o "_align_Q_" \o tn(align_Q(q))
    \o "_align_K_" \o tn(align_K(q, k))
    \o "_has_mask_" \o tn(m.present)

full_hash_name(q, k, m, do_causal) ==
  full_base_name(q, m)
    \o "_align_Q_" \o tn(align_Q(q))
    \o "_align_K_" \o tn(align_K(q, k))
    \o "_has_mask_" \o tn(m.present)
    \o "_do_causal_" \o tn(do_causal)

\* The parameter block with the tile counts rounded down.
AttnParams_floor(q, k, v, out) ==
  LET qL == q.shape[3]
      kL == k.shape[3]
      bkv == bk(q.shape[4])
      NQ_aligned == qL \div bq
      NK_aligned == kL \div bkv
  IN  [B |-> q.shape[1], H |-> q.shape[2], D |-> q.shape[4],
       qL |-> qL, kL |-> kL,
       gqa_factor |-> q.shape[2] \div k.shape[2],
       NQ |-> qL \div bq,
       NK |-> kL \div bkv,
       NQ_aligned |-> NQ_aligned,
       NK_aligned |-> NK_aligned,
       qL_rem |-> qL - NQ_aligned * bq,
       kL_rem |-> kL - NK_aligned * bkv,
       qL_off |-> kL - qL,
       Q_strides |-> <<q.strides[1], q.strides[2], q.strides[3]>>,
       K_strides |-> <<k.strides[1], k.strides[2], k.strides[3]>>,
       V_strides |-> <<v.strides[1], v.strides[2], v.strides[3]>>,
       O_strides |-> <<out.strides[1], out.strides[2], out.strides[3]>>]

AttnParams(q, k, v, out) ==
  LET qL == q.shape[3]
      kL == k.shape[3]
      bkv == bk(q.shape[4])
      NQ_aligned == qL \div bq
      NK_aligned == kL \div bkv
  IN  [B |-> q.shape[1], H |-> q.shape[2], D |-> q.shape[4],
       qL |-> qL, kL |-> kL,
       gqa_factor |-> q.shape[2] \div k.shape[2],
       NQ |-> (qL + bq - 1) \div bq,
       NK |-> (kL + bkv - 1) \div bkv,
       NQ_aligned |-> NQ_aligned,
       NK_aligned |-> NK_aligned,
       qL_rem |-> qL - NQ_aligned * bq,
       kL_rem |-> kL - NK_aligned * bkv,
       qL_off |-> kL - qL,
       Q_strides |-> <<q.strides[1], q.strides[2], q.strides[3]>>,
       K_strides |-> <<k.strides[1], k.strides[2], k.strides[3]>>,
       V_strides |-> <<v.strides[1], v.strides[2], v.strides[3]>>,
       O_strides |-> <<out.strides[1], out.strides[2], out.strides[3]>>]

AttnMaskParams(m) == <<m.strides[1], m.strides[2], m.strides[3]>>

full_group_dims == <<FullSimd, wm, wn>>

sdpa_full_self_attention_metal(q, k, v, out, do_causal, m) ==
  LET params == AttnParams(q, k, v, out)
  IN << [op |-> "get_command_encoder"],
        [op |-> "get_kernel", specialized |-> TRUE,
         base |-> full_base_name(q, m),
         hash |-> full_hash_name(q, k, m, do_causal),
         consts |-> full_func_consts(q, k, m, do_causal)],
        [op |-> "launch", fn |-> "full",
         kernel |-> full_hash_name(q, k, m, do_causal),
         ins |-> <<[slot |-> 0, arr |-> q], [slot |-> 1, arr |-> k],
                   [slot |-> 2, arr |-> v]>>
                 \o (IF m.present THEN <<[slot |-> 6, arr |-> m.arr]>>
                     ELSE << >>),
         outs |-> <<[slot |-> 3, arr |-> out]>>,
         params |-> params,
         has_mask |-> m.present,
         mstrides |-> IF m.present THEN AttnMaskParams(m.arr) ELSE << >>,
         grid |-> <<params.NQ, params.H, params.B>>,
         group |-> full_group_dims] >>

(***************************************************************************)
(* sdpa_vector (lines 133-207).                                            *)
(***************************************************************************)
vector_kname(q, v) ==
  "sdpa_vector_" \o get_type_string(q.dtype)
    \o "_" \o ToString(q.shape[4])
    \o "_" \o ToString(v.shape[4])

vector_func_consts(q, m) == << <<20, m.present>>, <<21, ~q.rc>> >>

vector_hash_name(q, v, m) ==
  vector_kname(q, v)
    \o (IF m.present THEN "_mask" ELSE "_nomask")
    \o (IF ~q.rc THEN "_qt" ELSE "_qnt")

\* The three strides taken as they are, extent 1 or not.
vector_mask_strides_raw(m) == <<m.strides[4], m.strides[3], m.strides[2]>>

\* kv_seq_stride, q_seq_stride, head_stride (nd = 4).  The three are int32_t;
\* every stride of the model lies in that range, where the narrowing of the
\* int64_t stride keeps its value.
vector_mask_strides(m) ==
  << IF m.shape[4] > 1 THEN m.strides[4] ELSE 0,
     IF m.shape[3] > 1 THEN m.strides[3] ELSE 0,
     IF m.shape[2] > 1 THEN m.strides[2] ELSE 0 >>

vector_group_dims == <<VectorGroup, 1, 1>>

sdpa_vector(q, k, v, out, m) ==
  << [op |-> "get_command_encoder"],
     [op |-> "get_kernel", specialized |-> TRUE,
      base |-> vector_kname(q, v),
      hash |-> vector_hash_name(q, v, m),
      consts |-> vector_func_consts(q, m)],
     [op |-> "launch", fn |-> "vector",
      kernel |-> vector_hash_name(q, v, m),
      ins |-> <<[slot |-> 0, arr |-> q], [slot |-> 1, arr |-> k],
                [slot |-> 2, arr |-> v]>>
              \o (IF m.present THEN <<[slot |-> 11, arr |-> m.arr]>>
                  ELSE << >>),
      outs |-> <<[slot |-> 3, arr |-> out]>>,
      gqa_factor |-> q.shape[2] \div k.shape[2],
      N |-> k.shape[3],
      kv_strides |-> <<k.strides[2], k.strides[3], v.strides[2], v.strides[3]>>,
      has_mask |-> m.present,
      mstrides |-> IF m.present THEN vector_mask_strides(m.arr) ELSE << >>,
      grid |-> <<q.shape[1] * q.shape[2], q.shape[3], 1>>,
      group |-> vector_group_dims] >>

(***************************************************************************)
(* sdpa_vector_2pass (lines 209-325), in its two halves: everything up to  *)
(* the first dispatch_threadgroups, and the final pass.                    *)
(***************************************************************************)
vector_2pass_kname(q, v) ==
  "sdpa_vector_2pass_1_" \o get_type_string(q.dtype)
    \o "_" \o ToString(q.shape[4])
    \o "_" \o ToString(v.shape[4])

vector_2pass_func_consts(q, m) == << <<20, m.present>>, <<21, ~q.rc>> >>

vector_2pass_hash_name(q, v, m) ==
  vector_2pass_kname(q, v)
    \o (IF m.present THEN "_mask" ELSE "_nomask")
    \o (IF ~q.rc THEN "_qt" ELSE "_qnt")

vector_2pass_mask_strides(m) ==
  << IF m.shape[4] > 1 THEN m.strides[4] ELSE 0,
     IF m.shape[3] > 1 THEN m.strides[3] ELSE 0,
     IF m.shape[2] > 1 THEN m.strides[2] ELSE 0 >>

vector_2pass_final_kname(q, v) ==
  "sdpa_vector_2pass_2_" \o get_type_string(q.dtype)
    \o "_" \o ToString(v.shape[4])

\* intermediate_shape: out.shape without its last axis, then blocks, then the
\* last axis; sums and maxs drop that last axis again.
intermediate(out) ==
  [buf |-> "intermediate", dtype |-> "float32",
   shape |-> SubSeq(out.shape, 1, Len(out.shape) - 1)
               \o <<blocks, out.shape[Len(out.shape)]>>]

sums(out) ==
  [buf |-> "sums", dtype |-> "float32",
   shape |-> SubSeq(out.shape, 1, Len(out.shape) - 1) \o <<blocks>>]

maxs(out) ==
  [buf |-> "maxs", dtype |-> "float32",
   shape |-> SubSeq(out.shape, 1, Len(out.shape) - 1) \o <<blocks>>]

\* The first pass with its two factors as two dimensions.
pass1_group_dims_2d == <<Pass1Simds, Pass1Width, 1>>

pass1_group_dims == <<Pass1Simds * Pass1Width, 1, 1>>

pass2_group_dims == <<FinalGroup, 1, 1>>

\* The intermediates with maxs never handed to the device.
allocate_intermediates_leaky(out) ==
  << [op |-> "malloc", buf |-> "intermediate"],
     [op |-> "malloc", buf |-> "sums"],
     [op |-> "malloc", buf |-> "maxs"],
     [op |-> "add_temporary", buf |-> "intermediate"],
     [op |-> "add_temporary", buf |-> "sums"] >>

\* lines 240-256
allocate_intermediates(out) ==
  << [op |-> "malloc", buf |-> "intermediate"],
     [op |-> "malloc", buf |-> "sums"],
     [op |-> "malloc", buf |-> "maxs"],
     [op |-> "add_temporary", buf |-> "intermediate"],
     [op |-> "add_temporary", buf |-> "sums"],
     [op |-> "add_temporary", buf |-> "maxs"] >>

sdpa_vector_2pass_first(q, k, v, out, m) ==
  allocate_intermediates(out) \o
  << [op |-> "get_command_encoder"],
     [op |-> "get_kernel", specialized |-> TRUE,
      base |-> vector_2pass_kname(q, v),
      hash |-> vector_2pass_hash_name(q, v, m),
      consts |-> vector_2pass_func_consts(q, m)],
     [op |-> "launch", fn |-> "pass1",
      kernel |-> vector_2pass_hash_name(q, v, m),
      ins |-> <<[slot |-> 0, arr |-> q], [slot |-> 1, arr |-> k],
                [slot |-> 2, arr |-> v]>>
              \o (IF m.present THEN <<[slot |-> 13, arr |-> m.arr]>>
                  ELSE << >>),
      outs |-> <<[slot |-> 3, arr |-> intermediate(out)],
                 [slot |-> 4, arr |-> sums(out)],
                 [slot |-> 5, arr |-> maxs(out)]>>,
      gqa_factor |-> q.shape[2] \div k.shape[2],
      N |-> k.shape[3],
      kv_strides |-> <<k.strides[2], k.strides[3], v.strides[2], v.strides[3]>>,
      has_mask |-> m.present,
      mstrides |-> IF m.present THEN vector_2pass_mask_strides(m.arr)
                   ELSE << >>,
      grid |-> <<q.shape[1] * q.shape[2], q.shape[3], blocks>>,
      group |-> pass1_group_dims] >>

sdpa_vector_2pass_final(q, v, out) ==
  << [op |-> "get_kernel", specialized |-> FALSE,
      base |-> vector_2pass_final_kname(q, v),
      hash |-> vector_2pass_final_kname(q, v),
      consts |-> << >>],
     [op |-> "launch", fn |-> "pass2",
      kernel |-> vector_2pass_final_kname(q, v),
      ins |-> <<[slot |-> 0, arr |-> intermediate(out)],
                [slot |-> 1, arr |-> sums(out)],
                [slot |-> 2, arr |-> maxs(out)]>>,
      outs |-> <<[slot |-> 3, arr |-> out]>>,
      has_mask |-> FALSE,
      mstrides |-> << >>,
      grid |-> <<q.shape[1] * q.shape[2], q.shape[3], 1>>,
      group |-> pass2_group_dims] >>

(***************************************************************************)
(* ScaledDotProductAttention::eval_gpu (lines 329-445).                    *)
(***************************************************************************)
NoRef == [kind |-> "unset", gen |-> 0, idx |-> 0]

NoMask == [present |-> FALSE, arr |-> NoArray]

NoFetch == [op |-> "none", specialized |-> FALSE, base |-> "", hash |-> "",
            consts |-> << >>]

\* The output array as the caller hands it over: shaped, without storage.
OutDescriptor(shape) ==
  [buf |-> "out", shape |-> shape, strides |-> RowStrides(shape),
   data |-> "none", mallocs |-> 0, rc |-> TRUE]

\* The state after `copies.reserve(3)` (line 344), for a call drawn from S.
Entry(S) ==
  /\ inputs \in S
  /\ pc = "q"
  /\ copies = << >>
  /\ cap = ReserveN
  /\ gen = 0
  /\ qh = NoRef /\ kh = NoRef /\ vh = NoRef
  /\ o = OutDescriptor(inputs.out_shape)
  /\ mask = NoMask
  /\ path = "none"
  /\ log = << >>
  /\ prevFetch = NoFetch

\* The comparison of line 375 with the boundary on the wrong side.
vector_mode_exclusive == inputs.q.shape[3] < VectorMaxQ

vector_mode == inputs.q.shape[3] <= VectorMaxQ

Back(str) == str[Len(str)]

\* The selection of lines 405-406 with a strict first threshold.
two_pass_strict(q, k) ==
  \/ Back(inputs.arch) = "d" /\ k.shape[3] > TwoPassLargeMinK
  \/ k.shape[2] < q.shape[2] /\ k.shape[3] >= TwoPassGqaMinK

two_pass(q, k) ==
  \/ Back(inputs.arch) = "d" /\ k.shape[3] >= TwoPassLargeMinK
  \/ k.shape[2] < q.shape[2] /\ k.shape[3] >= TwoPassGqaMinK

\* The donation test without the comparison of sizes.
donate_query_any_size(q) == q.don /\ (q.shape[3] = 1 \/ ~q.rc)

donate_query(q) ==
  q.don /\ (q.shape[3] = 1 \/ ~q.rc) /\ Size(q) = Size(o)

\* lines 380-396
vector_output(q) ==
  IF donate_query(q)
  THEN /\ o' = [o EXCEPT !.data = q.buf, !.strides = q.strides, !.rc = q.rc]
       /\ UNCHANGED log
  ELSE /\ log' = Append(log, [op |-> "malloc", buf |-> "out"])
       /\ IF o.shape[3] = 1
          THEN o' = [o EXCEPT !.data = "out", !.mallocs = @ + 1]
          ELSE o' = [o EXCEPT !.data = "out", !.mallocs = @ + 1,
                              !.strides = [o.strides EXCEPT
                                             ![3] = o.shape[2] * o.shape[4],
                                             ![2] = o.shape[4]],
                              !.rc = (q.shape[2] = 1)]

\* lines 419-435
full_output ==
  LET str_oD == 1
      str_oH == o.shape[4]
      str_oL == o.shape[2] * str_oH
      str_oB == o.shape[3] * str_oL
  IN  [o EXCEPT !.data = "out", !.mallocs = @ + 1,
                !.strides = <<str_oB, str_oH, str_oL, str_oD>>,
                !.rc = FALSE]

VecNormQ ==
  /\ pc = "q" /\ vector_mode
  /\ copy_unless(is_contiguous_or_head_seq_transposed(inputs.q), inputs.q, qh')
  /\ pc' = "k"
  /\ UNCHANGED <<inputs, kh, vh, o, mask, path, prevFetch>>

FullNormQ ==
  /\ pc = "q" /\ ~vector_mode
  /\ copy_unless(is_matrix_contiguous(inputs.q), inputs.q, qh')
  /\ pc' = "k"
  /\ UNCHANGED <<inputs, kh, vh, o, mask, path, prevFetch>>

NormK ==
  /\ pc = "k"
  /\ copy_unless(is_matrix_contiguous(inputs.k), inputs.k, kh')
  /\ pc' = "v"
  /\ UNCHANGED <<inputs, qh, vh, o, mask, path, prevFetch>>

NormV ==
  /\ pc = "v"
  /\ copy_unless(is_matrix_contiguous(inputs.v), inputs.v, vh')
  /\ pc' = "out"
  /\ UNCHANGED <<inputs, qh, kh, o, mask, path, prevFetch>>

VecOut ==
  /\ pc = "out" /\ vector_mode
  /\ vector_output(Deref(qh, inputs.q))
  /\ pc' = "mask"
  /\ UNCHANGED <<inputs, copies, cap, gen, qh, kh, vh, mask, path, prevFetch>>

FullOut ==
  /\ pc = "out" /\ ~vector_mode
  /\ o' = full_output
  /\ log' = Append(log, [op |-> "malloc", buf |-> "out"])
  /\ pc' = "mask"
  /\ UNCHANGED <<inputs, copies, cap, gen, qh, kh, vh, mask, path, prevFetch>>

\* lines 398-399: the mask is taken as it is
VecMask ==
  /\ pc = "mask" /\ vector_mode
  /\ mask' = [present |-> inputs.has_mask, arr |-> inputs.m]
  /\ pc' = "dispatch"
  /\ UNCHANGED <<inputs, copies, cap, gen, qh, kh, vh, o, path, log, prevFetch>>

\* lines 437-439: the optional holds the array copy_unless returned
FullMask ==
  /\ pc = "mask" /\ ~vector_mode
  /\ IF inputs.has_mask
     THEN \E ref \in {InputRef, CopyRef(gen, Len(copies) + 1),
                      CopyRef(gen + 1, Len(copies) + 1)} :
            /\ copy_unless(is_matrix_contiguous(inputs.m), inputs.m, ref)
            /\ mask' = [present |-> TRUE,
                        arr |-> IF ref.kind = "input" THEN inputs.m
                                ELSE copies'[ref.idx]]
     ELSE /\ mask' = NoMask
          /\ UNCHANGED <<log, copies, cap, gen>>
  /\ pc' = "dispatch"
  /\ UNCHANGED <<inputs, qh, kh, vh, o, path, prevFetch>>

VecSinglePass ==
  /\ pc = "dispatch" /\ vector_mode
  /\ \E q \in Reads(qh, inputs.q), k \in Reads(kh, inputs.k),
        v \in Reads(vh, inputs.v) :
       /\ ~two_pass(q, k)
       /\ log' = log \o sdpa_vector(q, k, v, o, mask)
  /\ path' = "vector"
  /\ pc' = "temps"
  /\ UNCHANGED <<inputs, copies, cap, gen, qh, kh, vh, o, mask, prevFetch>>

VecTwoPassFirst ==
  /\ pc = "dispatch" /\ vector_mode
  /\ \E q \in Reads(qh, inputs.q), k \in Reads(kh, inputs.k),
        v \in Reads(vh, inputs.v) :
       /\ two_pass(q, k)
       /\ log' = log \o sdpa_vector_2pass_first(q, k, v, o, mask)
  /\ path' = "vector_2pass"
  /\ pc' = "final"
  /\ UNCHANGED <<inputs, copies, cap, gen, qh, kh, vh, o, mask, prevFetch>>

VecTwoPassFinal ==
  /\ pc = "final"
  /\ \E q \in Reads(qh, inputs.q), v \in Reads(vh, inputs.v) :
       log' = log \o sdpa_vector_2pass_final(q, v, o)
  /\ pc' = "temps"
  /\ UNCHANGED <<inputs, copies, cap, gen, qh, kh, vh, o, mask, path, prevFetch>>

FullDispatch ==
  /\ pc = "dispatch" /\ ~vector_mode
  /\ \E q \in Reads(qh, inputs.q), k \in Reads(kh, inputs.k),
        v \in Reads(vh, inputs.v) :
       log' = log \o sdpa_full_self_attention_metal(q, k, v, o, inputs.causal,
                                                    mask)
  /\ path' = "full"
  /\ pc' = "temps"
  /\ UNCHANGED <<inputs, copies, cap, gen, qh, kh, vh, o, mask, prevFetch>>

\* A read through a dangling reference may also fault.
FullFault ==
  /\ pc = "dispatch" /\ ~vector_mode
  /\ ~(Live(qh) /\ Live(kh) /\ Live(vh))
  /\ path' = "full"
  /\ pc' = "crashed"
  /\ UNCHANGED <<inputs, copies, cap, gen, qh, kh, vh, o, mask, log, prevFetch>>

\* line 444
AddTemporaries ==
  /\ pc = "temps"
  /\ log' = Append(log, [op |-> "add_temporaries",
                         bufs |-> [i \in 1 .. Len(copies) |-> copies[i].buf]])
  /\ copies' = << >>
  /\ pc' = "done"
  /\ UNCHANGED <<inputs, cap, gen, qh, kh, vh, o, mask, path, prevFetch>>

Next ==
  \/ VecNormQ \/ FullNormQ \/ NormK \/ NormV
  \/ VecOut \/ FullOut \/ VecMask \/ FullMask
  \/ VecSinglePass \/ VecTwoPassFirst \/ VecTwoPassFinal
  \/ FullDispatch \/ FullFault
  \/ AddTemporaries

\* Calls that vary the memory layouts, the mask and the donation inputs.
LayoutCalls ==
  { Call("float16", <<2, 1>>, lq, TwoPassLargeMinK, 64, dv, ql, kl, vl,
         mkind, "bool", ml, qdon, arch, FALSE) :
      lq \in {1} \cup (VectorMaxQ .. VectorMaxQ + ExtraQ),
      dv \in {64, 128},
      ql \in {"row", "hst", "strided"},
      kl \in {"row", "strided"}, vl \in {"row", "strided"},
      mkind \in {"none", "full", "keys", "heads"},
      ml \in {"row", "strided"},
      qdon \in BOOLEAN, arch \in {LargeArch, SmallArch} }

\* Calls that vary the shapes the strategy selection reads.
SelectCalls ==
  { Call("float16", hh, lq, lk, 64, 64, "row", "row", "row",
         "none", "bool", "row", FALSE, arch, FALSE) :
      hh \in {<<1, 1>>, <<2, 1>>, <<2, 2>>},
      lq \in 1 .. VectorMaxQ + ExtraQ,
      lk \in (TwoPassLargeMinK - SlackK .. TwoPassLargeMinK + SlackK)
               \cup (TwoPassGqaMinK - SlackK .. TwoPassGqaMinK + SlackK),
      arch \in {LargeArch, SmallArch} }

Init == Entry(LayoutCalls \cup SelectCalls)

Spec == Init /\ [][Next]_vars

(***************************************************************************)
(* The tiled path on its own: sdpa_full_self_attention_metal applied to    *)
(* every pair of sequence lengths up to MaxL.                              *)
(***************************************************************************)
FullCalls ==
  { Call("float16", <<2, 1>>, lq, lk, d, d, "row", "row", "row",
         "none", "bool", "row", FALSE, SmallArch, causal) :
      lq \in 1 .. MaxL, lk \in 1 .. MaxL, d \in {64, BkSwitchD},
      causal \in {TRUE} }

InitFull ==
  /\ inputs \in FullCalls
  /\ pc = "full_call"
  /\ copies = << >> /\ cap = ReserveN /\ gen = 0
  /\ qh = InputRef /\ kh = InputRef /\ vh = InputRef
  /\ o = OutDescriptor(inputs.out_shape)
  /\ mask = NoMask
  /\ path = "none"
  /\ log = << >>
  /\ prevFetch = NoFetch

CallFull ==
  /\ pc = "full_call"
  /\ o' = full_output
  /\ log' = sdpa_full_self_attention_metal(inputs.q, inputs.k, inputs.v,
                                           full_output, inputs.causal, mask)
  /\ path' = "full"
  /\ pc' = "done"
  /\ UNCHANGED <<inputs, copies, cap, gen, qh, kh, vh, mask, prevFetch>>

SpecFull == InitFull /\ [][CallFull]_vars

(***************************************************************************)
(* Two calls in a row on one device: the specialised kernel fetch of the   *)
(* earlier call is kept beside the later call.                             *)
(***************************************************************************)
NameCalls ==
  { Call(dt, <<2, 1>>, 1, lk, d, d, ql, "row", "row",
         mkind, "bool", "row", FALSE, LargeArch, FALSE) :
      dt \in {"float16", "float32"},
      lk \in {BkLargeD, TwoPassLargeMinK},
      d \in {64, BkSwitchD},
      ql \in {"row", "hst"},
      mkind \in {"none", "rows"} }
  \cup
  { Call("float16", <<2, 1>>, lq, lk, d, d, "row", "row", "row",
         mkind, mdt, "row", FALSE, LargeArch, causal) :
      lq \in {bq - 1, bq}, lk \in {BkLargeD, TwoPassLargeMinK},
      d \in {64, BkSwitchD},
      mkind \in {"none", "rows"}, mdt \in {"bool", "float16"},
      causal \in BOOLEAN }
  \cup
  { Call("float16", <<2, 1>>, bq, BkLargeD, 64, 64, "strided", "strided",
         "strided", "rows", "bool", "strided", FALSE, LargeArch, FALSE) }

SpecializedFetches(events) ==
  SelectSeq(events, LAMBDA e : e.op = "get_kernel" /\ e.specialized)

NewCall ==
  /\ pc = "done"
  /\ inputs' \in NameCalls
  /\ prevFetch' = SpecializedFetches(log)[1]
  /\ pc' = "q"
  /\ copies' = << >> /\ cap' = ReserveN /\ gen' = 0
  /\ qh' = NoRef /\ kh' = NoRef /\ vh' = NoRef
  /\ o' = OutDescriptor(inputs'.out_shape)
  /\ mask' = NoMask
  /\ path' = "none"
  /\ log' = << >>

InitNames == Entry(NameCalls)

NextNames == Next \/ NewCall

SpecNames == InitNames /\ [][NextNames]_vars

(***************************************************************************)
(* Properties.                                                             *)
(***************************************************************************)
Launches == SelectSeq(log, LAMBDA e : e.op = "launch")

LaunchFns == {Launches[i].fn : i \in 1 .. Len(Launches)}

Lq == inputs.q.shape[3]

Lk == inputs.k.shape[3]

Dispatched == pc \in {"final", "temps", "done", "crashed"}

\* C1: every call takes exactly one dispatch path, chosen by the query
\* length alone: with Lq <= 8 a vector path (single-pass or two-pass) is
\* called and only vector launches are issued; with Lq > 8 the tiled path is
\* called and no vector launch is issued.  Nothing is launched before the
\* dispatch.
C1_PathByQueryLength ==
  /\ ~Dispatched => path = "none" /\ LaunchFns = {}
  /\ Dispatched /\ Lq <= 8 =>
       /\ path \in {"vector", "vector_2pass"}
       /\ LaunchFns # {}
       /\ path = "vector" => LaunchFns = {"vector"}
       /\ path = "vector_2pass" => LaunchFns \subseteq {"pass1", "pass2"}
  /\ Dispatched /\ Lq > 8 =>
       /\ path = "full"
       /\ LaunchFns \subseteq {"full"}
       /\ pc = "done" => LaunchFns = {"full"}

C1_Witness == pc = "done" /\ Lq = 8 /\ path = "vector" /\ LaunchFns = {"vector"}

\* C2: in vector mode the two-pass path is called exactly when the device's
\* architecture string ends in 'd' and Lk >= 1024, or Hk < H and Lk >= 4096;
\* and once it is selected at the call's key length, the selection made for
\* the same device and heads at every longer key length is two-pass too.
C2_TwoPassSelection ==
  Dispatched /\ Lq <= 8 =>
    LET large == inputs.arch[Len(inputs.arch)] = "d"
        gqa == inputs.k.shape[2] < inputs.q.shape[2]
    IN  /\ path = "vector_2pass" <=>
             (large /\ Lk >= 1024) \/ (gqa /\ Lk >= 4096)
        /\ path = "vector" <=>
             ~((large /\ Lk >= 1024) \/ (gqa /\ Lk >= 4096))
        /\ path = "vector_2pass" =>
             \A n \in Lk .. TwoPassGqaMinK + SlackK :
               two_pass(inputs.q, [inputs.k EXCEPT !.shape[3] = n])

C2_Witness ==
  /\ pc = "done" /\ path = "vector_2pass"
  /\ inputs.arch[Len(inputs.arch)] # "d"
  /\ Lk = 4096

\* C3: the parameter block and the alignment constants built by
\* sdpa_full_self_attention_metal for lengths Lq, Lk and head dim D, with
\* bq = 32 and bk = 32 if D < 128 else 16: NQ and NK are the ceilings of
\* Lq/bq and Lk/bk, qL_rem = Lq mod bq, kL_rem = Lk mod bk, qL_off = Lk - Lq,
\* and align_Q (align_K) is true exactly when qL_rem (kL_rem) is 0, which is
\* exactly when NQ = NQ_aligned (NK = NK_aligned).
C3_TiledParams ==
  \A i \in 1 .. Len(log) :
    log[i].op = "launch" /\ log[i].fn = "full" =>
      LET p == log[i].params
          consts == log[i - 1].consts
          D == inputs.q.shape[4]
          tk == IF D < 128 THEN 32 ELSE 16
      IN  /\ p.qL = Lq /\ p.kL = Lk /\ p.D = D
          /\ p.NQ * 32 >= Lq /\ Lq > (p.NQ - 1) * 32
          /\ p.NK * tk >= Lk /\ Lk > (p.NK - 1) * tk
          /\ p.qL_rem = Lq % 32 /\ 0 <= p.qL_rem /\ p.qL_rem < 32
          /\ p.kL_rem = Lk % tk /\ 0 <= p.kL_rem /\ p.kL_rem < tk
          /\ p.qL_off = Lk - Lq
          /\ consts[1][1] = 200 /\ consts[2][1] = 201
          /\ consts[1][2] = (p.qL_rem = 0)
          /\ consts[2][2] = (p.kL_rem = 0)
          /\ consts[1][2] = (p.NQ = p.NQ_aligned)
          /\ consts[2][2] = (p.NK = p.NK_aligned)
          /\ log[i].grid[1] = p.NQ
          /\ (Lq = 50 /\ Lk = 50 /\ D = 128) =>
               /\ p.NQ = 2 /\ p.NK = 4
               /\ p.qL_rem = 18 /\ p.kL_rem = 2 /\ p.qL_off = 0

C3_Witness ==
  /\ pc = "done" /\ Lq = 50 /\ Lk = 50 /\ inputs.q.shape[4] = 128
  /\ Len(Launches) = 1
  /\ Launches[1].params.NQ = 2 /\ Launches[1].params.NK = 4
  /\ Launches[1].params.qL_rem = 18 /\ Launches[1].params.kL_rem = 2

Count(op, buf) ==
  Cardinality({i \in 1 .. Len(log) : log[i].op = op /\ log[i].buf = buf})

Index(op, buf) ==
  CHOOSE i \in 1 .. Len(log) : log[i].op = op /\ log[i].buf = buf

FirstLaunch == CHOOSE i \in 1 .. Len(log) :
                 /\ log[i].op = "launch"
                 /\ \A j \in 1 .. i - 1 : log[j].op # "launch"

Bufs(bindings) == [i \in 1 .. Len(bindings) |-> bindings[i].arr.buf]

Reduction == <<"intermediate", "sums", "maxs">>

\* C4: in a two-pass call each of intermediate, sums and maxs is allocated
\* once and registered once as a temporary before the first launch; two
\* launches follow on one command encoder, in order: the partial reduction,
\* whose outputs are the three buffers and which binds no output tensor
\* `out`, and the finalize launch, whose inputs are the three buffers and
\* whose only output is `out`.
\* Nothing else is done with the three buffers: no event frees them and the
\* closing add_temporaries does not hand them over again.
C4_TwoPassLifecycle ==
  path = "vector_2pass" =>
    /\ \A b \in {"intermediate", "sums", "maxs"} :
         /\ Count("malloc", b) = 1
         /\ Count("add_temporary", b) = 1
         /\ Index("malloc", b) < Index("add_temporary", b)
         /\ Index("add_temporary", b) < FirstLaunch
    /\ Cardinality({i \in 1 .. Len(log) :
                       log[i].op = "get_command_encoder"}) = 1
    /\ \E i \in 1 .. FirstLaunch :
         log[i].op = "get_command_encoder"
    /\ Len(Launches) = IF pc = "final" THEN 1 ELSE 2
    /\ Launches[1].fn = "pass1"
    /\ Bufs(Launches[1].outs) = Reduction
    /\ \A i \in 1 .. Len(Launches[1].ins) :
         Launches[1].ins[i].arr.buf \notin {"out", "intermediate", "sums", "maxs"}
    /\ Len(Launches) = 2 =>
         /\ Launches[2].fn = "pass2"
         /\ Bufs(Launches[2].ins) = Reduction
         /\ Bufs(Launches[2].outs) = <<"out">>
    /\ \A i \in 1 .. Len(log) :
         /\ log[i].op \in {"malloc", "add_temporary", "copy_gpu",
                           "get_command_encoder", "get_kernel", "launch",
                           "add_temporaries"}
         /\ log[i].op = "add_temporaries" =>
              \A j \in 1 .. Len(log[i].bufs) :
                log[i].bufs[j] \notin {"intermediate", "sums", "maxs"}

C4_Witness ==
  /\ pc = "done" /\ path = "vector_2pass" /\ mask.present
  /\ Len(Launches) = 2 /\ Launches[2].fn = "pass2"

\* The innermost-stride-1 normalisation of `pre` into `arr`: `pre` itself and
\* no copy when its innermost stride is 1, else a fresh row-major copy.
Normalized(pre, arr) ==
  LET issued == {i \in 1 .. Len(log) :
                   log[i].op = "copy_gpu" /\ log[i].src = pre.buf}
  IN  IF pre.strides[4] = 1
      THEN arr = pre /\ issued = {}
      ELSE /\ arr.buf # pre.buf
           /\ arr.shape = pre.shape /\ arr.dtype = pre.dtype
           /\ arr.strides = RowStrides(pre.shape)
           /\ arr.strides[4] = 1
           /\ Cardinality(issued) = 1
           /\ \A i \in issued : log[i].dst = arr.buf

KernelLaunch(l) == l.fn \in {"vector", "pass1", "full"}

BroadcastStrides(m) ==
  << IF m.shape[4] > 1 THEN m.strides[4] ELSE 0,
     IF m.shape[3] > 1 THEN m.strides[3] ELSE 0,
     IF m.shape[2] > 1 THEN m.strides[2] ELSE 0 >>

FetchesInSight ==
  {SpecializedFetches(log)[i] : i \in 1 .. Len(SpecializedFetches(log))}
    \cup (IF prevFetch.op = "get_kernel" THEN {prevFetch} ELSE {})

\* C7: two specialised kernel fetches (full, single-pass vector or first
\* pass of two-pass, in any combination) with equal hash names have equal
\* base names and equal ordered lists of constant bindings.
C7_HashNameDeterminesKernel ==
  \A f \in FetchesInSight : \A g \in FetchesInSight :
    f.hash = g.hash => f.base = g.base /\ f.consts = g.consts

C7_Witness ==
  /\ pc = "done" /\ path = "full"
  /\ prevFetch.op = "get_kernel"
  /\ Lk = 16 /\ inputs.q.shape[4] = 128 /\ inputs.causal
  /\ prevFetch.hash = SpecializedFetches(log)[1].hash
  /\ prevFetch.consts = <<<<200, TRUE>>, <<201, TRUE>>, <<300, FALSE>>,
                          <<301, TRUE>>>>

\* C8: in vector mode the output takes over the normalised query's storage,
\* with no allocation, exactly when that query is donatable, has as many
\* elements as the output, and has length 1 or is not row-contiguous; in
\* every other vector-mode call and in every full-mode call the output gets
\* storage allocated for it exactly once, which is not the query's storage.
C8_OutputStorage ==
  /\ pc \in {"q", "k", "v", "out", "full_call"} =>
       o.data = "none" /\ o.mallocs = 0 /\ Count("malloc", "out") = 0
  /\ pc \in {"mask", "dispatch", "final", "temps", "crashed"} =>
       LET qn == Deref(qh, inputs.q)
           outsize == inputs.out_shape[1] * inputs.out_shape[2]
                        * inputs.out_shape[3] * inputs.out_shape[4]
           qsize == qn.shape[1] * qn.shape[2] * qn.shape[3] * qn.shape[4]
           cond == qn.don /\ qsize = outsize /\ (qn.shape[3] = 1 \/ ~qn.rc)
           fresh == /\ o.mallocs = 1 /\ Count("malloc", "out") = 1
                    /\ o.data = "out" /\ o.data # qn.buf
       IN  /\ Lq <= 8 /\ cond =>
                o.data = qn.buf /\ o.mallocs = 0 /\ Count("malloc", "out") = 0
           /\ Lq <= 8 /\ ~cond => fresh
           /\ Lq > 8 => fresh
  /\ pc = "done" =>
       /\ o.mallocs = Count("malloc", "out")
       /\ o.mallocs = 0 => Lq <= 8 /\ o.data \notin {"none", "out"}
       /\ o.mallocs # 0 => o.mallocs = 1 /\ o.data = "out"

C8_Witness ==
  /\ pc = "temps" /\ Lq = 8
  /\ qh.kind = "input" /\ ~inputs.q.rc
  /\ o.data = "q" /\ o.mallocs = 0

\* C9: at the moment Q, K and V are bound to a launch, each reference
\* copy_unless returned for them still points into the block the collection
\* of copies lives in (or at the input itself).
C9_ReferencesLiveAtBind ==
  pc \in {"dispatch", "final"} => Live(qh) /\ Live(kh) /\ Live(vh)

\* C10 as stated: the thread-group shapes are 32 x 4 x 1 (full), 1024 x 1 x 1
\* (single-pass vector), 8 x 32 x 1 (first pass of two-pass) and 1024 x 1 x 1
\* (finalize).
C10_GroupShapesAsStated ==
  \A i \in 1 .. Len(Launches) :
    LET l == Launches[i]
    IN  /\ l.fn = "full" => l.group = <<32, 4, 1>>
        /\ l.fn = "vector" => l.group = <<1024, 1, 1>>
        /\ l.fn = "pass1" => l.group = <<8, 32, 1>>
        /\ l.fn = "pass2" => l.group = <<1024, 1, 1>>

\* C10 as amended: the first pass of two-pass is launched with the
\* one-dimensional shape 256 x 1 x 1 (8 * 32 threads along x); the other
\* three shapes are as stated.
C10_GroupShapes ==
  \A i \in 1 .. Len(Launches) :
    LET l == Launches[i]
    IN  /\ l.fn = "full" => l.group = <<32, 4, 1>>
        /\ l.fn = "vector" => l.group = <<1024, 1, 1>>
        /\ l.fn = "pass1" => l.group = <<256, 1, 1>>
        /\ l.fn = "pass2" => l.group = <<1024, 1, 1>>

C10_Witness ==
  /\ pc = "done" /\ path = "vector_2pass"
  /\ Launches[1].fn = "pass1" /\ Launches[1].group = <<256, 1, 1>>
  /\ Launches[2].fn = "pass2" /\ Launches[2].group = <<1024, 1, 1>>

====
